---- MODULE Spec2Model ----
(***************************************************************************)
(* Model of src/youtube_manager/playlist.rs: the playlist Item, the        *)
(* comparator and sort_items, and the operations items, sort, prune and    *)
(* print of PlaylistImpl against a remote playlist.                        *)
(*                                                                         *)
(* Two specifications share the variables:                                 *)
(*   Spec      the service: a remote playlist, one invocation at a time,   *)
(*             one step per remote mutating call, every remote call able   *)
(*             to fail;                                                    *)
(*   SortSpec  the pure function sort_items applied to a bounded input.    *)
(***************************************************************************)
EXTENDS Integers, Sequences, FiniteSets

\* ------------------------------------------------------------------ bounds
\* Longest playlist of the service specification.
MaxEntries == 2
\* Longest input of the pure sort_items specification.
MaxLen == 3
\* Timestamps are the instants 1..MaxTime (DateTime compares by instant).
MaxTime == 2
\* prune is called with max_streamed in 0..MaxStreamed.
MaxStreamed == 1
\* Entries per page of the remote listing.
PageSize == 2

VARIABLES
    remote,          \* the remote playlist: sequence of entries
    videos,          \* the remote details of the playlist's videos, by video id
    dry_run,         \* PlaylistImpl.dry_run
    op,              \* the operation being invoked: none, items, sort, prune, print
    pc,              \* position in the invocation
    max_streamed,    \* prune's argument
    original_items,  \* sort: the fetched items (sort_items' input in SortSpec)
    items,           \* sort: the items, sorted by sort_items
    fetched,         \* the list returned by self.items() to items, print and prune's loop
    idx,             \* number of iterations completed by the current loop
    n,               \* prune: the streamed count
    calls,           \* remote calls issued by this invocation, in order
    marked,          \* prune: removal decisions reported, in order
    printed,         \* lines written by print, in order
    result,          \* the invocation's return value: none, Ok, Err
    start            \* the remote playlist when the invocation began

vars == <<remote, videos, dry_run, op, pc, max_streamed, original_items, items,
          fetched, idx, n, calls, marked, printed, result, start>>

\* ---------------------------------------------------------- Option<DateTime>
None == <<>>
Some(t) == <<t>>
is_some(o) == o # None
is_none(o) == o = None
unwrap(o) == o[1]

Times == 1..MaxTime
OptTime == {None} \cup {Some(t) : t \in Times}

\* What the remote reports of a video: the live streaming details and whether
\* the region restriction's blocked list is non-empty. A video the lookup
\* does not return, or one without details, leaves the Item's defaults, which
\* is the record with both times None and blocked FALSE.
Details == [scheduled_start_time : OptTime, actual_start_time : OptTime, blocked : BOOLEAN]

\* The display title of a video.
Title(video_id) == 100 + video_id

Item(entry, d) ==
    [video_id |-> entry.video_id,
     playlist_item_id |-> entry.id,
     title |-> entry.title,
     scheduled_start_time |-> d.scheduled_start_time,
     actual_start_time |-> d.actual_start_time,
     blocked |-> d.blocked]

\* ------------------------------------------------------------- the comparator
\* Ord::cmp on two instants.
cmp(a, b) == IF a < b THEN "Less" ELSE IF a > b THEN "Greater" ELSE "Equal"

\* Ordering::reverse.
reverse(o) == IF o = "Less" THEN "Greater" ELSE IF o = "Greater" THEN "Less" ELSE "Equal"

\* The closure with unstreamed items ordered before streamed ones and
\* unscheduled before scheduled.
compareTiersReversed(v, w) ==
    IF is_some(v.actual_start_time)
    THEN IF is_some(w.actual_start_time)
         THEN reverse(cmp(unwrap(v.actual_start_time), unwrap(w.actual_start_time)))
         ELSE "Greater"
    ELSE IF is_some(w.actual_start_time)
    THEN "Less"
    ELSE IF is_some(v.scheduled_start_time)
    THEN IF is_some(w.scheduled_start_time)
         THEN reverse(cmp(unwrap(v.scheduled_start_time), unwrap(w.scheduled_start_time)))
         ELSE "Greater"
    ELSE IF is_some(w.scheduled_start_time)
    THEN "Less"
    ELSE "Equal"

\* The closure without the calls of reverse: oldest first.
compareAscending(v, w) ==
    IF is_some(v.actual_start_time)
    THEN IF is_some(w.actual_start_time)
         THEN cmp(unwrap(v.actual_start_time), unwrap(w.actual_start_time))
         ELSE "Less"
    ELSE IF is_some(w.actual_start_time)
    THEN "Greater"
    ELSE IF is_some(v.scheduled_start_time)
    THEN IF is_some(w.scheduled_start_time)
         THEN cmp(unwrap(v.scheduled_start_time), unwrap(w.scheduled_start_time))
         ELSE "Less"
    ELSE IF is_some(w.scheduled_start_time)
    THEN "Greater"
    ELSE "Equal"

\* The closure with the video ids as a further key of items without times.
compareByVideoId(v, w) ==
    IF is_some(v.actual_start_time)
    THEN IF is_some(w.actual_start_time)
         THEN reverse(cmp(unwrap(v.actual_start_time), unwrap(w.actual_start_time)))
         ELSE "Less"
    ELSE IF is_some(w.actual_start_time)
    THEN "Greater"
    ELSE IF is_some(v.scheduled_start_time)
    THEN IF is_some(w.scheduled_start_time)
         THEN reverse(cmp(unwrap(v.scheduled_start_time), unwrap(w.scheduled_start_time)))
         ELSE "Less"
    ELSE IF is_some(w.scheduled_start_time)
    THEN "Greater"
    ELSE reverse(cmp(v.video_id, w.video_id))

\* The closure given to sort_by.
compare(v, w) ==
    IF is_some(v.actual_start_time)
    THEN IF is_some(w.actual_start_time)
         THEN reverse(cmp(unwrap(v.actual_start_time), unwrap(w.actual_start_time)))
         ELSE "Less"
    ELSE IF is_some(w.actual_start_time)
    THEN "Greater"
    ELSE IF is_some(v.scheduled_start_time)
    THEN IF is_some(w.scheduled_start_time)
         THEN reverse(cmp(unwrap(v.scheduled_start_time), unwrap(w.scheduled_start_time)))
         ELSE "Less"
    ELSE IF is_some(w.scheduled_start_time)
    THEN "Greater"
    ELSE "Equal"

Front(s) == SubSeq(s, 1, Len(s) - 1)
Last(s) == s[Len(s)]

\* An insertion that also moves the element past those it is Equal to.
RECURSIVE InsertUnstable(_, _)
InsertUnstable(sorted, x) ==
    IF sorted = <<>> THEN <<x>>
    ELSE IF compare(x, Last(sorted)) # "Greater"
         THEN Append(InsertUnstable(Front(sorted), x), Last(sorted))
         ELSE Append(sorted, x)

\* An insertion that drops an element Equal to the one before it.
RECURSIVE InsertDropsEqual(_, _)
InsertDropsEqual(sorted, x) ==
    IF sorted = <<>> THEN <<x>>
    ELSE IF compare(x, Last(sorted)) = "Less"
         THEN Append(InsertDropsEqual(Front(sorted), x), Last(sorted))
         ELSE IF compare(x, Last(sorted)) = "Equal" THEN sorted ELSE Append(sorted, x)

\* An insertion that stops at the first element, from the right, that the new
\* one is Greater than.
RECURSIVE InsertBeforeEqual(_, _)
InsertBeforeEqual(sorted, x) ==
    IF sorted = <<>> THEN <<x>>
    ELSE IF compare(x, Last(sorted)) = "Greater"
         THEN Append(sorted, x)
         ELSE Append(InsertBeforeEqual(Front(sorted), x), Last(sorted))

\* Vec::sort_by is a stable sort; on short slices it is an insertion sort:
\* the next element moves left past every element it is Less than.
RECURSIVE Insert(_, _)
Insert(sorted, x) ==
    IF sorted = <<>> THEN <<x>>
    ELSE IF compare(x, Last(sorted)) = "Less"
         THEN Append(Insert(Front(sorted), x), Last(sorted))
         ELSE Append(sorted, x)

RECURSIVE sort_items(_)
sort_items(s) ==
    IF s = <<>> THEN <<>> ELSE Insert(sort_items(Front(s)), Last(s))

\* ------------------------------------------------------------ the remote side
\* A remote call, as logged: list (position = page number), videos (the detail
\* lookup of one video), update (the reorder call) and delete.
ListCall(page) == [kind |-> "list", id |-> 0, video_id |-> 0, position |-> page]
VideosCall(video_id) == [kind |-> "videos", id |-> 0, video_id |-> video_id, position |-> 0]
UpdateCallOneBased(item, position) ==
    [kind |-> "update", id |-> item.playlist_item_id, video_id |-> item.video_id,
     position |-> position + 1]
UpdateCallAlwaysFirst(item, position) ==
    [kind |-> "update", id |-> item.playlist_item_id, video_id |-> item.video_id,
     position |-> 0]
UpdateCallAsDelete(item, position) ==
    [kind |-> "delete", id |-> item.playlist_item_id, video_id |-> item.video_id,
     position |-> position]
UpdateCall(item, position) ==
    [kind |-> "update", id |-> item.playlist_item_id, video_id |-> item.video_id,
     position |-> position]
DeleteCall(playlist_item_id) ==
    [kind |-> "delete", id |-> playlist_item_id, video_id |-> 0, position |-> 0]

Min(a, b) == IF a < b THEN a ELSE b

\* The calls one run of self.items() issues on playlist pl: per page, the
\* list call and then one detail lookup per entry of the page; a further page
\* is requested while the response carries a next page token.
RECURSIVE FetchCallsFrom(_, _)
FetchCallsFrom(pl, page) ==
    LET lo == page * PageSize + 1
        hi == Min(Len(pl), (page + 1) * PageSize)
    IN  <<ListCall(page)>>
        \o [i \in 1..(hi - lo + 1) |-> VideosCall(pl[lo + i - 1].video_id)]
        \o (IF hi < Len(pl) THEN FetchCallsFrom(pl, page + 1) ELSE <<>>)

FetchCalls(pl) == FetchCallsFrom(pl, 0)

\* The list self.items() returns: one Item per entry, in playlist order.
FetchItems(pl, vs) == [i \in 1..Len(pl) |-> Item(pl[i], vs[pl[i].video_id])]

IndexOf(pl, id) == CHOOSE i \in 1..Len(pl) : pl[i].id = id
HasEntry(pl, id) == \E i \in 1..Len(pl) : pl[i].id = id

RemoveAt(s, i) == SubSeq(s, 1, i - 1) \o SubSeq(s, i + 1, Len(s))
InsertAt(s, i, x) == SubSeq(s, 1, i - 1) \o <<x>> \o SubSeq(s, i, Len(s))

\* playlistItems.delete: the entry leaves the playlist.
Remove(pl, id) == IF HasEntry(pl, id) THEN RemoveAt(pl, IndexOf(pl, id)) ELSE pl

\* playlistItems.update with a position: the entry moves to that zero-based
\* position and the entries between shift by one.
Move(pl, id, position) ==
    IF HasEntry(pl, id)
    THEN LET i == IndexOf(pl, id)
             rest == RemoveAt(pl, i)
         IN  InsertAt(rest, Min(position, Len(rest)) + 1, pl[i])
    ELSE pl

\* The playlist after the remote has carried out a call.
Serve(pl, call) ==
    IF call.kind = "update" THEN Move(pl, call.id, call.position)
    ELSE IF call.kind = "delete" THEN Remove(pl, call.id)
    ELSE pl

\* ------------------------------------------------------------------- print
PrintLine(video) ==
    [id |-> video.playlist_item_id,
     invalid |-> is_none(video.scheduled_start_time),
     blocked |-> video.blocked]

PrintLines(list) == [i \in 1..Len(list) |-> PrintLine(list[i])]

\* ------------------------------------------------- prune's decision per item
\* The branch prune's loop takes on item i with streamed count cnt and cap k:
\* the reason it removes the item for (or keep) and the count afterwards.
ClassifyStreamedFirst(i, cnt, k) ==
    IF is_some(i.actual_start_time)
    THEN [reason |-> IF cnt + 1 > k THEN "surplus" ELSE "keep", n |-> cnt + 1]
    ELSE IF i.blocked
    THEN [reason |-> "blocked", n |-> cnt]
    ELSE IF is_none(i.scheduled_start_time)
    THEN [reason |-> "unscheduled", n |-> cnt]
    ELSE [reason |-> "keep", n |-> cnt]

ClassifyKeepsUnscheduled(i, cnt, k) ==
    IF i.blocked
    THEN [reason |-> "blocked", n |-> cnt]
    ELSE IF is_some(i.actual_start_time)
    THEN [reason |-> IF cnt + 1 > k THEN "surplus" ELSE "keep", n |-> cnt + 1]
    ELSE [reason |-> "keep", n |-> cnt]

ClassifyCapInclusive(i, cnt, k) ==
    IF i.blocked
    THEN [reason |-> "blocked", n |-> cnt]
    ELSE IF is_some(i.actual_start_time)
    THEN [reason |-> IF cnt + 1 >= k THEN "surplus" ELSE "keep", n |-> cnt + 1]
    ELSE IF is_none(i.scheduled_start_time)
    THEN [reason |-> "unscheduled", n |-> cnt]
    ELSE [reason |-> "keep", n |-> cnt]

Classify(i, cnt, k) ==
    IF i.blocked
    THEN [reason |-> "blocked", n |-> cnt]
    ELSE IF is_some(i.actual_start_time)
    THEN [reason |-> IF cnt + 1 > k THEN "surplus" ELSE "keep", n |-> cnt + 1]
    ELSE IF is_none(i.scheduled_start_time)
    THEN [reason |-> "unscheduled", n |-> cnt]
    ELSE [reason |-> "keep", n |-> cnt]

\* ------------------------------------------------------------------- Init
\* Entry i of the initial playlist has entry id i and a video id of 1..i, so a
\* video can be in the playlist more than once.
Entry(id, video_id) == [id |-> id, video_id |-> video_id, title |-> Title(video_id)]

Playlists ==
    UNION {{[i \in 1..len |-> Entry(i, vid[i])] :
              vid \in {f \in [1..len -> 1..len] : \A i \in 1..len : f[i] <= i}} :
           len \in 0..MaxEntries}

VideoIds(pl) == {pl[i].video_id : i \in 1..Len(pl)}

Locals ==
    /\ op = "none"
    /\ max_streamed = 0
    /\ items = <<>>
    /\ fetched = <<>>
    /\ idx = 0
    /\ n = 0
    /\ calls = <<>>
    /\ marked = <<>>
    /\ printed = <<>>
    /\ result = "none"

Init ==
    /\ remote \in Playlists
    /\ videos \in [VideoIds(remote) -> Details]
    /\ dry_run \in BOOLEAN
    /\ pc = "idle"
    /\ start = remote
    /\ original_items = <<>>
    /\ Locals

\* ------------------------------------------------------------- invocations
\* A failed call after which the operation goes on.
FailIgnored(issued) ==
    /\ calls' = calls \o issued
    /\ result' = "Err"
    /\ UNCHANGED pc

\* A remote call fails: the ? operator returns the error from the operation.
Fail(issued) ==
    /\ calls' = calls \o issued
    /\ result' = "Err"
    /\ pc' = "done"

\* self.items() fails at its j-th remote call.
FetchFails(j) ==
    /\ j \in 1..Len(FetchCalls(remote))
    /\ Fail(SubSeq(FetchCalls(remote), 1, j))

\* items(): the fetch.
ItemsOp ==
    /\ pc = "idle"
    /\ op' = "items"
    /\ \/ /\ calls' = calls \o FetchCalls(remote)
          /\ fetched' = FetchItems(remote, videos)
          /\ result' = "Ok"
          /\ pc' = "done"
       \/ /\ \E j \in 1..Len(FetchCalls(remote)) : FetchFails(j)
          /\ UNCHANGED fetched
    /\ start' = remote
    /\ UNCHANGED <<remote, videos, dry_run, max_streamed, original_items, items,
                   idx, n, marked, printed>>

\* print(): the fetch, then one line per item.
PrintOp ==
    /\ pc = "idle"
    /\ op' = "print"
    /\ \/ /\ calls' = calls \o FetchCalls(remote)
          /\ fetched' = FetchItems(remote, videos)
          /\ printed' = printed \o PrintLines(fetched')
          /\ result' = "Ok"
          /\ pc' = "done"
       \/ /\ \E j \in 1..Len(FetchCalls(remote)) : FetchFails(j)
          /\ UNCHANGED <<fetched, printed>>
    /\ start' = remote
    /\ UNCHANGED <<remote, videos, dry_run, max_streamed, original_items, items,
                   idx, n, marked>>

\* sort() returns Ok: to the caller, or to prune, which goes on to its fetch.
SortReturns(o) ==
    IF o = "prune"
    THEN pc' = "prune_fetch" /\ UNCHANGED result
    ELSE pc' = "done" /\ result' = "Ok"

\* What sort() does with the sorted items: nothing when they equal the fetched
\* items, a report under dry-run, the reorder loop otherwise.
SortBranchNoDryRun(original, sorted, dry) ==
    IF sorted = original THEN "already" ELSE "reorder"

SortBranchNoReorder(original, sorted, dry) ==
    IF sorted = original THEN "already" ELSE "report"

SortBranchByLength(original, sorted, dry) ==
    IF Len(sorted) = Len(original) THEN "already" ELSE IF dry THEN "report" ELSE "reorder"

SortBranch(original, sorted, dry) ==
    IF sorted = original THEN "already" ELSE IF dry THEN "report" ELSE "reorder"

\* sort() up to its first reorder call: the fetch, sort_items, the comparison
\* with the fetched items and the dry-run report. prune(k) begins with it.
SortBegin(o, k) ==
    /\ pc = "idle"
    /\ op' = o
    /\ max_streamed' = k
    /\ start' = remote
    /\ \/ /\ calls' = calls \o FetchCalls(remote)
          /\ original_items' = FetchItems(remote, videos)
          /\ items' = sort_items(original_items')
          /\ LET branch == SortBranch(original_items', items', dry_run) IN
             /\ IF branch = "reorder"
                THEN pc' = "reorder" /\ UNCHANGED result
                ELSE SortReturns(o)
             /\ printed' = IF branch = "report" THEN printed \o PrintLines(items') ELSE printed
       \/ /\ \E j \in 1..Len(FetchCalls(remote)) : FetchFails(j)
          /\ UNCHANGED <<original_items, items, printed>>
    /\ UNCHANGED <<remote, videos, dry_run, fetched, idx, n, marked>>

Sort == SortBegin("sort", 0)

Prune(k) == SortBegin("prune", k)

\* One iteration of sort()'s loop: the reorder call of items[idx] to position idx.
Reorder ==
    /\ pc = "reorder"
    /\ idx < Len(items)
    /\ LET item == items[idx + 1] IN
       \/ /\ calls' = Append(calls, UpdateCall(item, idx))
          /\ remote' = Serve(remote, UpdateCall(item, idx))
          /\ IF idx + 1 = Len(items)
             THEN SortReturns(op) /\ idx' = 0
             ELSE idx' = idx + 1 /\ UNCHANGED <<pc, result>>
       \/ /\ Fail(<<UpdateCall(item, idx)>>)
          /\ UNCHANGED <<remote, idx>>
    /\ UNCHANGED <<videos, dry_run, op, max_streamed, original_items, items, fetched,
                   n, marked, printed, start>>

\* prune() after sort() has returned Ok: the second fetch.
PruneFetch ==
    /\ pc = "prune_fetch"
    /\ \/ /\ calls' = calls \o FetchCalls(remote)
          /\ fetched' = FetchItems(remote, videos)
          /\ IF fetched' = <<>>
             THEN pc' = "done" /\ result' = "Ok"
             ELSE pc' = "classify" /\ UNCHANGED result
       \/ /\ \E j \in 1..Len(FetchCalls(remote)) : FetchFails(j)
          /\ UNCHANGED fetched
    /\ UNCHANGED <<remote, videos, dry_run, op, max_streamed, original_items, items,
                   idx, n, marked, printed, start>>

\* A loop that ends with the item it is on.
NextItemStops ==
    /\ idx' = idx + 1
    /\ pc' = "done"
    /\ result' = "Ok"

\* The loop of prune() goes on to its next item, or prune returns Ok.
NextItem ==
    /\ idx' = idx + 1
    /\ IF idx' = Len(fetched)
       THEN pc' = "done" /\ result' = "Ok"
       ELSE UNCHANGED <<pc, result>>

\* One iteration of prune()'s loop on item fetched[idx].
PruneItem ==
    /\ pc = "classify"
    /\ idx < Len(fetched)
    /\ LET i == fetched[idx + 1]
           c == Classify(i, n, max_streamed)
       IN  /\ n' = c.n
           /\ IF c.reason = "keep"
              THEN NextItem /\ UNCHANGED <<remote, calls, marked>>
              ELSE /\ marked' = Append(marked, [id |-> i.playlist_item_id, reason |-> c.reason])
                   /\ IF dry_run
                      THEN NextItem /\ UNCHANGED <<remote, calls>>
                      ELSE \/ /\ calls' = Append(calls, DeleteCall(i.playlist_item_id))
                              /\ remote' = Serve(remote, DeleteCall(i.playlist_item_id))
                              /\ NextItem
                           \/ /\ Fail(<<DeleteCall(i.playlist_item_id)>>)
                              /\ UNCHANGED <<remote, idx>>
    /\ UNCHANGED <<videos, dry_run, op, max_streamed, original_items, items, fetched,
                   printed, start>>

\* The invocation has returned; the next one starts from the playlist as it is.
\* No call looks up a video that has left the playlist (items() asks for the
\* videos of the entries it lists), so its details are kept no longer.
Return ==
    /\ pc = "done"
    /\ pc' = "idle"
    /\ op' = "none"
    /\ max_streamed' = 0
    /\ original_items' = <<>>
    /\ items' = <<>>
    /\ fetched' = <<>>
    /\ idx' = 0
    /\ n' = 0
    /\ calls' = <<>>
    /\ marked' = <<>>
    /\ printed' = <<>>
    /\ result' = "none"
    /\ start' = remote
    /\ videos' = [v \in VideoIds(remote) |-> videos[v]]
    /\ UNCHANGED <<remote, dry_run>>

Next ==
    \/ ItemsOp
    \/ PrintOp
    \/ Sort
    \/ \E k \in 0..MaxStreamed : Prune(k)
    \/ Reorder
    \/ PruneFetch
    \/ PruneItem
    \/ Return

Spec == Init /\ [][Next]_vars

\* ------------------------------------------------- sort_items on its own
\* The input grows to any sequence of at most MaxLen items, item i with ids i
\* and any details; sort_items is then applied to it.
InitSort ==
    /\ original_items = <<>>
    /\ pc = "input"
    /\ remote = <<>>
    /\ videos = <<>>
    /\ dry_run = FALSE
    /\ start = <<>>
    /\ Locals

AddItem ==
    /\ pc = "input"
    /\ Len(original_items) < MaxLen
    /\ \E d \in Details :
          LET id == Len(original_items) + 1
          IN  original_items' = Append(original_items, Item(Entry(id, id), d))
    /\ UNCHANGED <<remote, videos, dry_run, op, pc, max_streamed, items, fetched,
                   idx, n, calls, marked, printed, result, start>>

SortItems ==
    /\ pc = "input"
    /\ items' = sort_items(original_items)
    /\ pc' = "sorted"
    /\ UNCHANGED <<remote, videos, dry_run, op, max_streamed, original_items, fetched,
                   idx, n, calls, marked, printed, result, start>>

NextSort == AddItem \/ SortItems

SortSpec == InitSort /\ [][NextSort]_vars

\* ====================================================================
\* Properties of sort_items (checked under SortSpec)
\* ====================================================================
TierA(v) == is_some(v.actual_start_time)
TierB(v) == is_none(v.actual_start_time) /\ is_some(v.scheduled_start_time)
TierC(v) == is_none(v.actual_start_time) /\ is_none(v.scheduled_start_time)

Positions(s) == 1..Len(s)

\* C1: in the output of sort_items every item with actual_start_time present
\* precedes every item without it, and among the items without it every item
\* with scheduled_start_time present precedes every item with neither.
C1_TierSeparation ==
    pc = "sorted" =>
        \A i, j \in Positions(items) :
            /\ (TierA(items[i]) /\ ~TierA(items[j])) => i < j
            /\ (TierB(items[i]) /\ TierC(items[j])) => i < j

\* An input with the three tiers in the reverse of their canonical order.
C1_Witness ==
    /\ pc = "sorted"
    /\ Len(original_items) = 3
    /\ TierC(original_items[1])
    /\ TierB(original_items[2])
    /\ TierA(original_items[3])
    /\ TierA(items[1]) /\ TierB(items[2]) /\ TierC(items[3])

\* C2 as stated: two distinct items of Tier A are in the output in the order
\* v before w if and only if v.actual_start_time >= w.actual_start_time, and
\* likewise in Tier B with scheduled_start_time.
C2_Original ==
    pc = "sorted" =>
        \A i, j \in Positions(items) :
            i # j =>
                /\ (TierA(items[i]) /\ TierA(items[j])) =>
                       (i < j <=> unwrap(items[i].actual_start_time)
                                    >= unwrap(items[j].actual_start_time))
                /\ (TierB(items[i]) /\ TierB(items[j])) =>
                       (i < j <=> unwrap(items[i].scheduled_start_time)
                                    >= unwrap(items[j].scheduled_start_time))

\* C2 amended: for every two items of Tier A with different
\* actual_start_time, v is before w in the output if and only if
\* v.actual_start_time >= w.actual_start_time; likewise for every two items of
\* Tier B with different scheduled_start_time.
C2_DescendingWithinTier ==
    pc = "sorted" =>
        \A i, j \in Positions(items) :
            /\ (TierA(items[i]) /\ TierA(items[j])
                /\ items[i].actual_start_time # items[j].actual_start_time) =>
                   (i < j <=> unwrap(items[i].actual_start_time)
                                >= unwrap(items[j].actual_start_time))
            /\ (TierB(items[i]) /\ TierB(items[j])
                /\ items[i].scheduled_start_time # items[j].scheduled_start_time) =>
                   (i < j <=> unwrap(items[i].scheduled_start_time)
                                >= unwrap(items[j].scheduled_start_time))

\* Tier A and Tier B inputs in ascending order of their keys, which the sort
\* turns round.
C2_Witness ==
    /\ pc = "sorted"
    /\ Len(original_items) = 3
    /\ \/ /\ \A i \in 1..3 : TierA(original_items[i])
          /\ unwrap(original_items[1].actual_start_time) < unwrap(original_items[2].actual_start_time)
          /\ original_items[2].actual_start_time = original_items[3].actual_start_time
          /\ items = <<original_items[2], original_items[3], original_items[1]>>
       \/ /\ \A i \in 1..3 : TierB(original_items[i])
          /\ unwrap(original_items[1].scheduled_start_time)
               < unwrap(original_items[2].scheduled_start_time)
          /\ original_items[2].scheduled_start_time = original_items[3].scheduled_start_time
          /\ items = <<original_items[2], original_items[3], original_items[1]>>

\* C7: sort_items applied to its own output returns that output, element for
\* element.
C7_Idempotent ==
    pc = "sorted" => sort_items(items) = items

\* An output that differs from its input and holds two items of equal rank.
C7_Witness ==
    /\ pc = "sorted"
    /\ items # original_items
    /\ \E i, j \in Positions(items) : i # j /\ compare(items[i], items[j]) = "Equal"

\* ====================================================================
\* Properties of the service (checked under Spec)
\* ====================================================================
IsUpdate(c) == c.kind = "update"
IsDelete(c) == c.kind = "delete"

\* The reorder calls and the delete calls of the invocation, in order.
Updates == SelectSeq(calls, IsUpdate)
Deletes == SelectSeq(calls, IsDelete)

\* The items of the playlist as the invocation found it, and their canonical
\* ordering.
StartItems == FetchItems(start, videos)
Canon == sort_items(StartItems)

VideoIdSeq(list) == [i \in 1..Len(list) |-> list[i].video_id]

IsMarked(id) == \E j \in 1..Len(marked) : marked[j].id = id
MarkedAs(id, reason) ==
    /\ \E j \in 1..Len(marked) : marked[j] = [id |-> id, reason |-> reason]
    /\ \A j \in 1..Len(marked) : marked[j].id = id => marked[j].reason = reason

NotBlockedStreamed(v) == ~v.blocked /\ TierA(v)

\* C3 as stated: for both values of the dry-run flag, a prune(k) without a
\* remote failure keeps, of the non-blocked streamed items, exactly the first
\* min(k, count) in canonical order and marks every other one as surplus
\* streamed.
C3_Original ==
    (op = "prune" /\ pc = "done" /\ result = "Ok") =>
        LET S == SelectSeq(Canon, NotBlockedStreamed) IN
        \A j \in 1..Len(S) :
            IF j <= max_streamed
            THEN ~IsMarked(S[j].playlist_item_id)
            ELSE MarkedAs(S[j].playlist_item_id, "surplus")

\* C4: under dry-run no reorder call and no delete call is issued and the
\* remote playlist is as the invocation found it; the calls of the fetch are
\* issued.
C4_DryRunReadOnly ==
    dry_run =>
        /\ remote = start
        /\ \A j \in 1..Len(calls) : calls[j].kind \in {"list", "videos"}
        /\ pc = "done" => (calls # <<>> /\ calls[1] = ListCall(0))
        /\ (pc = "done" /\ result = "Ok") =>
               SubSeq(calls, 1, Len(FetchCalls(start))) = FetchCalls(start)

\* A dry-run prune of a playlist that is out of order and has items to remove.
C4_Witness ==
    /\ dry_run
    /\ op = "prune" /\ pc = "done" /\ result = "Ok"
    /\ items # original_items
    /\ Len(marked) = 2
    /\ printed # <<>>

\* C5: a step of prune's loop on a blocked item marks it for removal with the
\* reason blocked, and nothing else, and leaves the streamed count as it was.
C5_BlockedPrecedence ==
    [][(pc = "classify" /\ fetched[idx + 1].blocked) =>
          /\ marked' = Append(marked, [id |-> fetched[idx + 1].playlist_item_id,
                                       reason |-> "blocked"])
          /\ n' = n]_vars

\* A blocked item with actual_start_time present, over a cap of 0, marked as
\* blocked with the streamed count still 0.
C5_Witness ==
    /\ op = "prune" /\ max_streamed = 0 /\ n = 0
    /\ \E j \in 1..Len(fetched) :
          /\ fetched[j].blocked
          /\ TierA(fetched[j])
          /\ MarkedAs(fetched[j].playlist_item_id, "blocked")

\* C6: a step of prune's loop on an item with neither timestamp marks it for
\* removal: as unscheduled when it is not blocked, as blocked when it is.
C6_UnscheduledRemoved ==
    [][(pc = "classify" /\ TierC(fetched[idx + 1])) =>
          marked' = Append(marked, [id |-> fetched[idx + 1].playlist_item_id,
                                    reason |-> IF fetched[idx + 1].blocked
                                               THEN "blocked" ELSE "unscheduled"])]_vars

\* Two items with neither timestamp, one blocked and one not, both marked,
\* under the largest cap.
C6_Witness ==
    /\ op = "prune" /\ pc = "done" /\ max_streamed = MaxStreamed
    /\ \E i, j \in 1..Len(fetched) :
          /\ TierC(fetched[i]) /\ fetched[i].blocked
          /\ MarkedAs(fetched[i].playlist_item_id, "blocked")
          /\ TierC(fetched[j]) /\ ~fetched[j].blocked
          /\ MarkedAs(fetched[j].playlist_item_id, "unscheduled")

\* The reorder calls that put a playlist in the order of list: call i (from 0)
\* names item i of the list and position i.
ExpectedUpdates(list) ==
    [i \in 1..Len(list) |->
        [kind |-> "update", id |-> list[i].playlist_item_id,
         video_id |-> list[i].video_id, position |-> i - 1]]

\* C8: in a non-dry-run sort of a playlist that is out of order, the reorder
\* calls issued so far are the first ones of the sequence that names, in call i
\* (from 0), the entry id and video id of item i of the sorted sequence and
\* position i; a sort that returns Ok has issued exactly one per fetched item.
C8_ReorderCalls ==
    (op = "sort" /\ ~dry_run /\ Canon # StartItems) =>
        /\ Len(Updates) <= Len(Canon)
        /\ Updates = SubSeq(ExpectedUpdates(Canon), 1, Len(Updates))
        /\ pc = "reorder" => Len(Updates) = idx
        /\ (pc = "done" /\ result = "Ok") => Len(Updates) = Len(StartItems)

\* A completed sort of two entries of which the second goes first.
C8_Witness ==
    /\ op = "sort" /\ ~dry_run /\ pc = "done" /\ result = "Ok"
    /\ Len(start) = 2
    /\ Len(Updates) = 2
    /\ Updates[1].id = start[2].id
    /\ remote # start

SameVideoIds == VideoIdSeq(Canon) = VideoIdSeq(StartItems)

\* C9 as stated: in either mode, a sort issues no reorder call exactly when the
\* canonical ordering has the video_id sequence of the fetched sequence, and
\* then the remote playlist is unchanged.
C9_Original ==
    (op = "sort" /\ pc = "done" /\ result = "Ok") =>
        /\ Updates = <<>> <=> SameVideoIds
        /\ SameVideoIds => remote = start

\* C9 amended: a sort whose fetch succeeds issues no reorder call exactly when
\* dry-run is set or the canonical ordering has the video_id sequence of the
\* fetched sequence; when it has, the remote playlist is left unchanged and
\* sort returns success (an error can only be one of the fetch).
C9_NoReorderWhenSorted ==
    (op = "sort" /\ pc = "done") =>
        /\ result = "Ok" => (Updates = <<>> <=> (dry_run \/ SameVideoIds))
        /\ Updates # <<>> => (~dry_run /\ ~SameVideoIds)
        /\ SameVideoIds =>
              /\ remote = start
              /\ result = "Err" => calls = SubSeq(FetchCalls(start), 1, Len(calls))

\* A non-dry-run sort of two entries already in canonical order.
C9_Witness ==
    /\ op = "sort" /\ pc = "done" /\ result = "Ok" /\ ~dry_run
    /\ Len(start) = 2
    /\ SameVideoIds
    /\ Updates = <<>>

\* The playlist with the entries of list, in its order.
EntriesOf(list) ==
    [i \in 1..Len(list) |->
        [id |-> list[i].playlist_item_id, video_id |-> list[i].video_id,
         title |-> list[i].title]]

PositionIn(list, id) == CHOOSE i \in 1..Len(list) : list[i].playlist_item_id = id

\* C10: when prune has issued a delete call, the calls before the first delete
\* are those of a complete fetch, of the complete reorder loop if the playlist
\* was out of order, and of a second complete fetch; the list of that second
\* fetch is the canonical ordering; and the delete calls are one per item
\* marked for removal, in the order of that list.
C10_DeletesAfterSort ==
    (op = "prune" /\ Deletes # <<>>) =>
        /\ fetched = Canon
        /\ calls = FetchCalls(start)
                   \o (IF fetched = StartItems THEN <<>> ELSE ExpectedUpdates(fetched))
                   \o FetchCalls(EntriesOf(fetched))
                   \o Deletes
        /\ Deletes = [j \in 1..Len(marked) |-> DeleteCall(marked[j].id)]
        /\ \A a, b \in 1..Len(marked) :
               a < b => PositionIn(fetched, marked[a].id) < PositionIn(fetched, marked[b].id)

\* A prune that reordered two entries and then deleted both.
C10_Witness ==
    /\ op = "prune" /\ pc = "done" /\ result = "Ok"
    /\ Len(Updates) = 2
    /\ Len(Deletes) = 2
    /\ remote = <<>>

\* The playlist after the remote has carried out the calls of log, in order.
RECURSIVE Replay(_, _)
Replay(pl, log) ==
    IF log = <<>> THEN pl ELSE Serve(Replay(pl, Front(log)), Last(log))

\* The failed call of prune was one of its sort phase: a reorder call, or a
\* call of the first fetch.
FailedInSortPhase ==
    /\ op = "prune" /\ result = "Err"
    /\ \/ Last(calls).kind = "update"
       \/ Updates = <<>> /\ Len(calls) <= Len(FetchCalls(start))

\* C11: once a remote call has failed the operation has returned the failure
\* and issues no further remote call; the remote playlist is the one left by
\* the calls that succeeded before it, and stays so; when the failure is one of
\* prune's sort phase, no delete call has been issued.
C11_FailureAborts ==
    [][/\ result' = "Err" =>
             /\ pc' = "done"
             /\ calls' # <<>>
             /\ remote' = Replay(start', Front(calls'))
             /\ FailedInSortPhase' => Deletes' = <<>>
       /\ result = "Err" =>
             /\ remote' = remote
             /\ calls' = calls \/ (pc' = "idle" /\ calls' = <<>>)]_vars

\* A prune whose second reorder call failed after the first had moved an entry.
C11_Witness ==
    /\ op = "prune" /\ result = "Err" /\ pc = "done"
    /\ Len(Updates) = 2
    /\ remote # start
    /\ Deletes = <<>>

\* ====================================================================
\* Further properties of sort_items (checked under SortSpec)
\* ====================================================================
\* C12: two items the comparator ranks Equal are in the output in the order
\* they have in the input.
C12_Stable ==
    pc = "sorted" =>
        \A i, j \in Positions(original_items) :
            (i < j /\ compare(original_items[i], original_items[j]) = "Equal") =>
                \E a, b \in Positions(items) :
                    a < b /\ items[a] = original_items[i] /\ items[b] = original_items[j]

\* Two items without times ahead of a streamed one, and the sort moves them
\* behind it in their order; the two differ in blocked.
C12_Witness ==
    /\ pc = "sorted"
    /\ Len(original_items) = 3
    /\ TierC(original_items[1]) /\ TierC(original_items[2]) /\ TierA(original_items[3])
    /\ original_items[1].blocked # original_items[2].blocked
    /\ items = <<original_items[3], original_items[1], original_items[2]>>

\* The number of times x is in s.
Count(s, x) == Cardinality({i \in Positions(s) : s[i] = x})

\* C13: the output of sort_items has the length of the input and each Item as
\* many times as the input has it, every field included; an input of at most
\* one item is returned as it is.
C13_Permutation ==
    pc = "sorted" =>
        /\ Len(items) = Len(original_items)
        /\ \A i \in Positions(original_items) :
               Count(items, original_items[i]) = Count(original_items, original_items[i])
        /\ \A i \in Positions(items) :
               Count(original_items, items[i]) = Count(items, items[i])
        /\ Len(original_items) <= 1 => items = original_items

\* An input of three items of which the sort moves every one.
C13_Witness ==
    /\ pc = "sorted"
    /\ Len(original_items) = 3
    /\ \A i \in 1..3 : items[i] # original_items[i]

SameTimes(v, w) ==
    /\ v.actual_start_time = w.actual_start_time
    /\ v.scheduled_start_time = w.scheduled_start_time

\* C19: on the items of the input the comparator is reflexive (Equal on an
\* item and itself), antisymmetric (compare(v, w) is the reverse of
\* compare(w, v)) and transitive (not Greater, twice, gives not Greater), and
\* its result is the same when either argument is replaced by an item with
\* the same two times, whatever their ids, title and blocked.
C19_TotalPreorder ==
    pc = "sorted" =>
        \A i, j \in Positions(original_items) :
            LET v == original_items[i]
                w == original_items[j]
            IN  /\ compare(v, w) = reverse(compare(w, v))
                /\ (i = j => compare(v, w) = "Equal")
                /\ \A k \in Positions(original_items) :
                       LET u == original_items[k]
                       IN  /\ (compare(u, v) # "Greater" /\ compare(v, w) # "Greater")
                                  => compare(u, w) # "Greater"
                           /\ SameTimes(v, u)
                                  => /\ compare(v, w) = compare(u, w)
                                     /\ compare(w, v) = compare(w, u)

\* A sorted input of three items, one from each tier in some order of times,
\* with two of them alike in times and unlike in blocked and ids.
C19_Witness ==
    /\ pc = "sorted"
    /\ Len(original_items) = 3
    /\ SameTimes(original_items[1], original_items[3])
    /\ original_items[1].blocked # original_items[3].blocked
    /\ original_items[1].video_id # original_items[3].video_id
    /\ compare(original_items[1], original_items[2]) = "Greater"
    /\ compare(original_items[2], original_items[3]) = "Less"

\* ====================================================================
\* Further properties of the service (checked under Spec)
\* ====================================================================
\* The walk of prune's loop over list with cap k, as a function: the streamed
\* count and the removal decisions at its end.
RECURSIVE Walk(_, _)
Walk(list, k) ==
    IF list = <<>> THEN [n |-> 0, marked |-> <<>>]
    ELSE LET before == Walk(Front(list), k)
             i == Last(list)
             c == Classify(i, before.n, k)
         IN  [n |-> c.n,
              marked |-> IF c.reason = "keep" THEN before.marked
                         ELSE Append(before.marked,
                                     [id |-> i.playlist_item_id, reason |-> c.reason])]

Range(s) == {s[i] : i \in Positions(s)}

\* What a non-dry-run prune(k) of the playlist the invocation found deletes,
\* with the reasons: it walks the canonical ordering.
NonDryRunRemovals(k) == Range(Walk(Canon, k).marked)

\* C14 as stated: the items a completed prune(k) marks for removal, with their
\* reasons, are in either mode the ones a non-dry-run prune(k) of the same
\* playlist deletes.
C14_Original ==
    (op = "prune" /\ pc = "done" /\ result = "Ok") =>
        Range(marked) = NonDryRunRemovals(max_streamed)

\* C15: after a non-dry-run sort that returned Ok the items of the remote
\* playlist, in its order, are the canonical ordering of the items sort
\* fetched, and sort_items leaves a fetch of them unchanged.
C15_SortedAfterSort ==
    (op = "sort" /\ pc = "done" /\ result = "Ok" /\ ~dry_run) =>
        /\ FetchItems(remote, videos) = Canon
        /\ sort_items(FetchItems(remote, videos)) = FetchItems(remote, videos)

\* A sort that issued its reorder calls and left the playlist in another order.
C15_Witness ==
    /\ op = "sort" /\ pc = "done" /\ result = "Ok" /\ ~dry_run
    /\ Updates # <<>>
    /\ FetchItems(start, videos) # Canon
    /\ FetchItems(remote, videos) = Canon

\* The number of non-blocked streamed items among the first i of list.
StreamedRank(list, i) == Cardinality({j \in 1..i : NotBlockedStreamed(list[j])})

\* Item i of list is one prune(k) keeps when it walks list.
Kept(list, i, k) ==
    /\ ~list[i].blocked
    /\ \/ TierB(list[i])
       \/ TierA(list[i]) /\ StreamedRank(list, i) <= k

Ids(pl) == {pl[i].id : i \in Positions(pl)}

\* C16: after a non-dry-run prune(k) that returned Ok the remote playlist has
\* exactly the entries of the initial playlist that are not blocked and are
\* unstreamed with a scheduled_start_time or among the first k non-blocked
\* streamed items of the canonical ordering, in canonical order; with k = 0 no
\* entry with actual_start_time is left.
C16_KeptAfterPrune ==
    (op = "prune" /\ pc = "done" /\ result = "Ok" /\ ~dry_run) =>
        /\ Ids(remote) = {Canon[i].playlist_item_id :
                            i \in {j \in Positions(Canon) : Kept(Canon, j, max_streamed)}}
        /\ Range(remote) \subseteq Range(start)
        /\ Len(remote) = Cardinality(Ids(remote))
        /\ LET left == FetchItems(remote, videos)
           IN  /\ left = sort_items(left)
               /\ max_streamed = 0 => \A i \in Positions(left) : ~TierA(left[i])

\* A prune(1) of two non-blocked streamed entries, oldest first, that leaves
\* the newer one.
C16_Witness ==
    /\ op = "prune" /\ pc = "done" /\ result = "Ok" /\ ~dry_run
    /\ max_streamed = 1
    /\ Len(start) = 2
    /\ \A i \in 1..2 : NotBlockedStreamed(StartItems[i])
    /\ StartItems # Canon
    /\ remote = <<start[2]>>

\* The number of items of prune's list its loop has dealt with: one more than
\* the iterations completed when the delete call of an iteration failed.
Visited ==
    IF pc = "done" /\ result = "Err" /\ Deletes # <<>> THEN idx + 1 ELSE idx

\* Item i of list is one prune(k) removes when it walks list.
Removed(list, i, k) ==
    \/ list[i].blocked
    \/ TierC(list[i])
    \/ NotBlockedStreamed(list[i]) /\ StreamedRank(list, i) > k

\* C17: prune's loop has dealt with the first Visited items of the re-fetched
\* list and with no other: exactly the ones of them to remove are marked, once
\* each and in list order, the streamed count is the number of non-blocked
\* streamed items among them, no entry id has two delete calls, and a prune
\* that returns Ok has dealt with every item.
C17_SinglePass ==
    (op = "prune" /\ pc \in {"classify", "done"} /\ fetched # <<>>) =>
        LET visited == Visited
            deletes == Deletes
        IN  /\ visited <= Len(fetched)
            /\ \A i \in Positions(fetched) :
                   IsMarked(fetched[i].playlist_item_id)
                       <=> (i <= visited /\ Removed(fetched, i, max_streamed))
            /\ \A a, b \in Positions(marked) :
                   a < b => \E i, j \in Positions(fetched) :
                               /\ i < j
                               /\ fetched[i].playlist_item_id = marked[a].id
                               /\ fetched[j].playlist_item_id = marked[b].id
            /\ n = StreamedRank(fetched, visited)
            /\ \A a, b \in Positions(deletes) : deletes[a].id = deletes[b].id => a = b
            /\ ~dry_run => Len(deletes) = Len(marked)
            /\ (pc = "done" /\ result = "Ok") => visited = Len(fetched)

\* A prune(0) that removed the first of two streamed items and went on to
\* count and remove the second.
C17_Witness ==
    /\ op = "prune" /\ pc = "done" /\ result = "Ok" /\ ~dry_run
    /\ max_streamed = 0
    /\ Len(fetched) = 2
    /\ \A i \in 1..2 : NotBlockedStreamed(fetched[i])
    /\ n = 2
    /\ Len(Deletes) = 2

\* s is a permutation of t.
IsPermutation(s, t) ==
    /\ Len(s) = Len(t)
    /\ \A x \in Range(s) \cup Range(t) : Count(s, x) = Count(t, x)

\* C18: in every state of a sort invocation, after any number of reorder calls
\* and after a failure, the remote playlist is a permutation of the entries
\* that were fetched.
C18_SortKeepsMembership ==
    op = "sort" => IsPermutation(remote, start)

\* A sort whose second reorder call failed, with the playlist in another
\* order than it was.
C18_Witness ==
    /\ op = "sort" /\ pc = "done" /\ result = "Err"
    /\ Len(Updates) = 2
    /\ remote # start
    /\ IsPermutation(remote, start)

\* C20 as stated: every non-blocked item of prune's list that print flags as
\* invalid is marked for removal by a completed prune, for every cap.
C20_Original ==
    (op = "prune" /\ pc = "done" /\ result = "Ok") =>
        \A i \in Positions(fetched) :
            (PrintLine(fetched[i]).invalid /\ ~fetched[i].blocked)
                => IsMarked(fetched[i].playlist_item_id)

====
